---- MODULE Spec2Model ----
(***************************************************************************)
(* Model of nagios/core.py: the status-file reader, the entity builders,   *)
(* the graph assembly of Nagios._update, the lookup host_or_service and    *)
(* the reduced views for_json.                                             *)
(*                                                                         *)
(* A Python string is a sequence of atoms (pieces of text); the string is  *)
(* the concatenation of its atoms.  "hoststatus {" is                      *)
(* <<"host","status"," ","{">>, "comment_id=01" is                         *)
(* <<"comment_id","=","0","1">>.  A Python dict is a function.             *)
(***************************************************************************)
EXTENDS Integers, Sequences, FiniteSets, TLC

VARIABLES
    statusfile,   \* the lines of the status file on disk
    pc,           \* "new": before Nagios(...); "built": returned; "failed": raised
    nagios,       \* <<>> or <<the Nagios object the caller received>>
    err,          \* the exception type the constructor raised, "" if none
    f,            \* the file handle of _update: "unopened", "open", "closed"
    lookups,      \* the config lookups (pynag filter calls) made, in call order
    yielded,      \* the stanzas the generator next_stanza yielded to the loop
    ret           \* the result of the last host_or_service / for_json call

vars == <<statusfile, pc, nagios, err, f, lookups, yielded, ret>>

(* Bounds of the model. *)
MaxFragments == 3
MaxLines == 3

(***************************************************************************)
(* Python values.                                                          *)
(***************************************************************************)
None == <<"<None>">>
Str(a) == <<a>>

Put(d, k, v) == (k :> v) @@ d
Get(d, k, default) == IF k \in DOMAIN d THEN d[k] ELSE default

RECURSIVE lstrip(_)
lstrip(l) == IF Len(l) > 0 /\ l[1] = " " THEN lstrip(SubSeq(l, 2, Len(l))) ELSE l

RECURSIVE rstrip(_)
rstrip(l) == IF Len(l) > 0 /\ l[Len(l)] = " " THEN rstrip(SubSeq(l, 1, Len(l) - 1)) ELSE l

strip(l) == rstrip(lstrip(l))

endswith(l, a) == Len(l) > 0 /\ l[Len(l)] = a

contains(l, a) == \E i \in 1..Len(l) : l[i] = a

find(l, a) == CHOOSE i \in 1..Len(l) : l[i] = a /\ \A j \in 1..(i - 1) : l[j] # a

\* l.split(sep, 1)
cut(l, i) == << SubSeq(l, 1, i - 1), SubSeq(l, i + 1, Len(l)) >>

split1(l, sep) == IF contains(l, sep) THEN cut(l, find(l, sep)) ELSE << l >>

Digits == {"0", "1", "2"}
DigitVal(a) == IF a = "0" THEN 0 ELSE IF a = "1" THEN 1 ELSE 2

RECURSIVE digitsval(_, _)
digitsval(l, acc) ==
    IF Len(l) = 0 THEN acc ELSE digitsval(SubSeq(l, 2, Len(l)), 10 * acc + DigitVal(l[1]))

\* int(v): [ok |-> FALSE] stands for ValueError
int(v) ==
    LET t == strip(v)
    IN  IF Len(t) = 0 \/ \E i \in 1..Len(t) : t[i] \notin Digits
        THEN [ok |-> FALSE, val |-> 0]
        ELSE [ok |-> TRUE, val |-> digitsval(t, 0)]

(***************************************************************************)
(* The stanza reader (the generator next_stanza).                          *)
(***************************************************************************)
Flush(cur, out) == IF Len(cur) = 0 THEN out ELSE Append(out, cur[1])

\* cur[key] = val for the two halves of line.split('=', 1)
SetField(cur, kv) == << Put(cur[1], kv[1], kv[2]) >>

RECURSIVE stanza_loop(_, _, _, _)

\* stanza_line with a guard "cur is not None" on the field branch
stanza_line_skipping(lines, i, cur, out, line) ==
    IF endswith(line, "{")
    THEN stanza_loop(lines, i + 1, << (Str("type") :> split1(line, " ")[1]) >>,
                     Flush(cur, out))
    ELSE IF contains(line, "=") /\ Len(cur) > 0
    THEN stanza_loop(lines, i + 1, SetField(cur, split1(line, "=")), out)
    ELSE stanza_loop(lines, i + 1, cur, out)

\* the body of the generator's loop, line being the stripped line i
stanza_line(lines, i, cur, out, line) ==
    IF endswith(line, "{")
    THEN stanza_loop(lines, i + 1, << (Str("type") :> split1(line, " ")[1]) >>,
                     Flush(cur, out))
    ELSE IF contains(line, "=")
    THEN IF Len(cur) = 0
         THEN [yielded |-> out, err |-> "TypeError"]
         ELSE stanza_loop(lines, i + 1, SetField(cur, split1(line, "=")), out)
    ELSE stanza_loop(lines, i + 1, cur, out)

\* the generator from line i on; cur is << >> for None
stanza_loop(lines, i, cur, out) ==
    IF i > Len(lines)
    THEN [yielded |-> Flush(cur, out), err |-> ""]
    ELSE stanza_line(lines, i, cur, out, strip(lines[i]))

next_stanza(lines) == stanza_loop(lines, 1, << >>, << >>)

(***************************************************************************)
(* The entity builders.  An object is a record: dict is the part of the    *)
(* instance __dict__ copied from the stanza (and later set by              *)
(* attach_config); the other fields are the attributes the constructors    *)
(* assign.                                                                 *)
(***************************************************************************)
HostOrServiceEssential ==
    << Str("current_state"), Str("plugin_output"), Str("notifications_enabled"),
       Str("last_check"), Str("last_notification"), Str("active_checks_enabled"),
       Str("problem_has_been_acknowledged"), Str("last_hard_state"),
       Str("scheduled_downtime_depth") >>

CommentEssential ==
    << Str("comment_id"), Str("entry_type"), Str("source"), Str("persistent"),
       Str("entry_time"), Str("expires"), Str("expire_time"), Str("author"),
       Str("comment_data") >>

DowntimeEssential ==
    << Str("downtime_id"), Str("entry_time"), Str("start_time"), Str("end_time"),
       Str("triggered_by"), Str("fixed"), Str("duration"), Str("author"),
       Str("comment") >>

NagiosObject(obj) ==
    [ dict |-> obj,
      host |-> Get(obj, Str("host_name"), None),
      service |-> Get(obj, Str("service_description"), None),
      essential_keys |-> << >> ]

HostOrService(obj) ==
    [ NagiosObject(obj) EXCEPT !.essential_keys = HostOrServiceEssential ]
    @@ [ downtimes |-> << >>, comments |-> << >>,
         config_items |-> << Str("alias"), Str("notes") >> ]

Host(obj) ==
    [ HostOrService(obj) EXCEPT !.config_items = Append(@, Str("hostgroups")) ]
    @@ [ services |-> << >> ]

Service(obj) ==
    [ HostOrService(obj) EXCEPT !.config_items = Append(@, Str("servicegroups")) ]

Comment(obj) ==
    [ NagiosObject(obj) EXCEPT !.essential_keys = CommentEssential ]
    @@ [ comment_id |-> int(obj[Str("comment_id")]).val ]

Downtime(obj) ==
    [ NagiosObject(obj) EXCEPT !.essential_keys = DowntimeEssential ]
    @@ [ downtime_id |-> int(obj[Str("downtime_id")]).val ]

\* conf.get(item, '') is true: a non-empty string
Truthy(v) == Len(v) > 0

RECURSIVE attach_items(_, _, _)
attach_items(o, conf, i) ==
    IF i > Len(o.config_items)
    THEN o
    ELSE LET item == o.config_items[i]
         IN  attach_items(
                 IF Truthy(Get(conf, item, << >>))
                 THEN [ o EXCEPT !.dict = Put(@, item, conf[item]),
                                 !.essential_keys = Append(@, item) ]
                 ELSE o,
                 conf, i + 1)

attach_config(o, conf) == attach_items(o, conf, 1)

(***************************************************************************)
(* Nagios.  self is the object under construction, with three fields of    *)
(* the run added: err, the exception raised ("" while none), log, the      *)
(* config lookups made so far, and f, the state of the file handle.        *)
(***************************************************************************)
RefNone == [ kind |-> "None" ]
HostRef(h) == [ kind |-> "Host", host |-> h ]
ServiceRef(h, s) == [ kind |-> "Service", host |-> h, service |-> s ]
\* self.services[host][service], which raises KeyError on a missing key
ServiceAt(self, h, s) ==
    IF h \in DOMAIN self.services /\ s \in DOMAIN self.services[h]
    THEN ServiceRef(h, s)
    ELSE [ kind |-> "KeyError" ]

\* host_or_service without the test "host not in self.services"
host_or_service_unchecked(self, host, service) ==
    IF host \notin DOMAIN self.hosts
    THEN RefNone
    ELSE IF service = None
    THEN HostRef(host)
    ELSE IF host \in DOMAIN self.services /\ service \notin DOMAIN self.services[host]
    THEN RefNone
    ELSE ServiceAt(self, host, service)

host_or_service(self, host, service) ==
    IF host \notin DOMAIN self.hosts
    THEN RefNone
    ELSE IF service = None
    THEN HostRef(host)
    ELSE IF host \notin DOMAIN self.services \/ service \notin DOMAIN self.services[host]
    THEN RefNone
    ELSE ServiceAt(self, host, service)

\* PutComment that keeps the entity already stored under the id
PutComment_keep_first(self, obj, id) ==
    IF ~id.ok
    THEN [ self EXCEPT !.err = "ValueError" ]
    ELSE IF id.val \in DOMAIN self.comments
    THEN self
    ELSE [ self EXCEPT !.comments = Put(@, id.val, Comment(obj)) ]

\* self.comments[id] = Comment(obj), id the result of int(obj['comment_id'])
PutComment(self, obj, id) ==
    IF ~id.ok
    THEN [ self EXCEPT !.err = "ValueError" ]
    ELSE [ self EXCEPT !.comments = Put(@, id.val, Comment(obj)) ]

\* self.downtimes[id] = Downtime(obj), id the result of int(obj['downtime_id'])
PutDowntime(self, obj, id) ==
    IF ~id.ok
    THEN [ self EXCEPT !.err = "ValueError" ]
    ELSE [ self EXCEPT !.downtimes = Put(@, id.val, Downtime(obj)) ]

\* the dispatch on obj['type']
Dispatch(self, obj, host, service, type) ==
    IF type = << "host", "status" >>
    THEN [ self EXCEPT !.hosts = Put(@, host, Host(obj)) ]
    ELSE IF type = << "service", "status" >>
    THEN [ self EXCEPT !.services =
               Put(@, host, Put(Get(@, host, << >>), service, Service(obj))) ]
    ELSE IF endswith(type, "comment")
    THEN IF Str("comment_id") \notin DOMAIN obj
         THEN [ self EXCEPT !.err = "KeyError" ]
         ELSE PutComment(self, obj, int(obj[Str("comment_id")]))
    ELSE IF endswith(type, "downtime")
    THEN IF Str("downtime_id") \notin DOMAIN obj
         THEN [ self EXCEPT !.err = "KeyError" ]
         ELSE PutDowntime(self, obj, int(obj[Str("downtime_id")]))
    ELSE self

\* the body of the loop over the stanzas
LoopBody(self, obj) ==
    Dispatch(self, obj, Get(obj, Str("host_name"), None),
             Get(obj, Str("service_description"), None), obj[Str("type")])

RECURSIVE parse_loop(_, _, _)
parse_loop(self, stanzas, i) ==
    IF i > Len(stanzas) \/ self.err # ""
    THEN self
    ELSE parse_loop(LoopBody(self, stanzas[i]), stanzas, i + 1)

\* f = open(statusfile, 'r')
Open(self) == [ self EXCEPT !.f = "open" ]

\* f.close(), reached when the loop has not raised
Close(parsed) == IF parsed.err # "" THEN parsed ELSE [ parsed EXCEPT !.f = "closed" ]

\* the loop over the stanzas g that the generator yields
ReadLoop(opened, g) ==
    IF g.err # ""
    THEN [ opened EXCEPT !.err = g.err ]
    ELSE Close(parse_loop(opened, g.yielded, 1))

\* open, the loop over next_stanza(f), close
ReadStatus(self, lines) == ReadLoop(Open(self), next_stanza(lines))

attach_service(self, h, svc) ==
    [ self EXCEPT !.hosts[h].services = Put(@, svc.service, ServiceRef(svc.host, svc.service)) ]

attach_comment(self, ref, cmt) ==
    IF ref.kind = "Host"
    THEN [ self EXCEPT !.hosts[ref.host].comments = Put(@, cmt.comment_id, cmt) ]
    ELSE [ self EXCEPT !.services[ref.host][ref.service].comments =
               Put(@, cmt.comment_id, cmt) ]

attach_downtime(self, ref, dt) ==
    IF ref.kind = "Host"
    THEN [ self EXCEPT !.hosts[ref.host].downtimes = Put(@, dt.downtime_id, dt) ]
    ELSE [ self EXCEPT !.services[ref.host][ref.service].downtimes =
               Put(@, dt.downtime_id, dt) ]

\* self.model.Host.objects.filter(host_name=host)
HostFilter(self, host) == Get(self.model.host, host, << >>)
\* self.model.Service.objects.filter(host_name=host, service_description=s)
ServiceFilter(self, host, s) == Get(self.model.service, << host, s >>, << >>)

\* the use of host_conf, the result of the filter
UseHostConf(self, host, host_conf) ==
    IF Len(host_conf) = 0
    THEN self
    ELSE IF host_or_service(self, host, None).kind = "None"
    THEN [ self EXCEPT !.err = "AttributeError" ]
    ELSE [ self EXCEPT !.hosts[host] = attach_config(@, host_conf[1]) ]

\* the host's config: the lookup and attach_config on the host
HostConfig(self, host) ==
    IF ~self.model.enabled
    THEN self
    ELSE UseHostConf([ self EXCEPT !.log = Append(@, << "Host", host >>) ],
                     host, HostFilter(self, host))

\* the use of service_conf, the result of the filter
UseServiceConf(self, host, key, service_conf) ==
    IF Len(service_conf) = 0
    THEN self
    ELSE [ self EXCEPT !.services[host][key] = attach_config(@, service_conf[1]) ]

\* ServiceConfig that calls the filter once for the test and once for [0]
ServiceConfig_twice(self, host, key, s) ==
    IF ~self.model.enabled
    THEN self
    ELSE IF Len(ServiceFilter(self, host, s.service)) = 0
    THEN [ self EXCEPT !.log = Append(@, << "Service", host, s.service >>) ]
    ELSE UseServiceConf(
             [ self EXCEPT !.log = Append(Append(@, << "Service", host, s.service >>),
                                          << "Service", host, s.service >>) ],
             host, key, ServiceFilter(self, host, s.service))

\* the service's config: the lookup and attach_config on the service s
ServiceConfig(self, host, key, s) ==
    IF ~self.model.enabled
    THEN self
    ELSE UseServiceConf([ self EXCEPT !.log = Append(@, << "Service", host, s.service >>) ],
                        host, key, ServiceFilter(self, host, s.service))

\* self.host_or_service(host).attach_service(s)
AttachToHost(self, host, key) ==
    IF self.err # "" THEN self
    ELSE IF host_or_service(self, host, None).kind = "None"
    THEN [ self EXCEPT !.err = "AttributeError" ]
    ELSE attach_service(self, host, self.services[host][key])

\* for s in self.services[host].itervalues(), in the order order
RECURSIVE services_loop(_, _, _, _)
services_loop(self, host, order, i) ==
    IF i > Len(order) \/ self.err # ""
    THEN self
    ELSE services_loop(
             AttachToHost(ServiceConfig(self, host, order[i], self.services[host][order[i]]),
                          host, order[i]),
             host, order, i + 1)

\* the services of host, unless the host's config raised
ServicesOf(self, sched, host) ==
    IF self.err # "" THEN self ELSE services_loop(self, host, sched.services[host], 1)

\* for host in self.services, in the order sched.hosts
RECURSIVE hosts_loop(_, _, _)
hosts_loop(self, sched, i) ==
    IF i > Len(sched.hosts) \/ self.err # ""
    THEN self
    ELSE hosts_loop(ServicesOf(HostConfig(self, sched.hosts[i]), sched, sched.hosts[i]),
                    sched, i + 1)

MinOf(ids) == CHOOSE x \in ids : \A y \in ids : x <= y

\* AttachComment that attaches to the host also when c.service is given
AttachComment_to_host(self, c, target) ==
    IF target.kind = "KeyError"
    THEN [ self EXCEPT !.err = "KeyError" ]
    ELSE IF target.kind = "None"
    THEN [ self EXCEPT !.err = "AttributeError" ]
    ELSE attach_comment(self, HostRef(c.host), c)

\* self.host_or_service(c.host, c.service).attach_comment(c); an exception of
\* host_or_service would leave the build
AttachComment(self, c, target) ==
    IF target.kind = "KeyError"
    THEN [ self EXCEPT !.err = "KeyError" ]
    ELSE IF target.kind = "None"
    THEN [ self EXCEPT !.err = "AttributeError" ]
    ELSE attach_comment(self, target, c)

\* for c in self.comments.itervalues()
RECURSIVE comments_loop(_, _)
comments_loop(self, ids) ==
    IF ids = {} \/ self.err # ""
    THEN self
    ELSE comments_loop(
             AttachComment(self, self.comments[MinOf(ids)],
                           host_or_service(self, self.comments[MinOf(ids)].host,
                                           self.comments[MinOf(ids)].service)),
             ids \ { MinOf(ids) })

\* self.host_or_service(d.host, d.service).attach_downtime(d)
AttachDowntime(self, d, target) ==
    IF target.kind = "KeyError"
    THEN [ self EXCEPT !.err = "KeyError" ]
    ELSE IF target.kind = "None"
    THEN [ self EXCEPT !.err = "AttributeError" ]
    ELSE attach_downtime(self, target, d)

\* for d in self.downtimes.itervalues()
RECURSIVE downtimes_loop(_, _)
downtimes_loop(self, ids) ==
    IF ids = {} \/ self.err # ""
    THEN self
    ELSE downtimes_loop(
             AttachDowntime(self, self.downtimes[MinOf(ids)],
                            host_or_service(self, self.downtimes[MinOf(ids)].host,
                                            self.downtimes[MinOf(ids)].service)),
             ids \ { MinOf(ids) })

AllComments(self) == comments_loop(self, DOMAIN self.comments)
AllDowntimes(self) == downtimes_loop(self, DOMAIN self.downtimes)

\* the three loops after the file is closed
Assemble(self, sched) == AllDowntimes(AllComments(hosts_loop(self, sched, 1)))

Perms(S) ==
    { p \in [1..Cardinality(S) -> S] : \A i, j \in 1..Cardinality(S) : i # j => p[i] # p[j] }

\* the orders in which the two dicts of services may be iterated
Schedules(self) ==
    LET D == DOMAIN self.services
    IN  { [ hosts |-> hs, services |-> ss ] :
            hs \in Perms(D),
            ss \in { m \in [ D -> UNION { Perms(DOMAIN self.services[h]) : h \in D } ] :
                       \A h \in D : m[h] \in Perms(DOMAIN self.services[h]) } }

\* Nagios.__init__ up to the call of _update
NewNagios(model) ==
    [ hosts |-> << >>, services |-> << >>, comments |-> << >>, downtimes |-> << >>,
      model |-> model, err |-> "", log |-> << >>, f |-> "unopened" ]

\* the rest of _update once the loop over the file has ended or raised
Finish(r, sched) == IF r.err # "" THEN r ELSE Assemble(r, sched)

\* Nagios._update
update(self, lines, sched) == Finish(ReadStatus(self, lines), sched)

(***************************************************************************)
(* The reduced views.                                                      *)
(***************************************************************************)
Range(q) == { q[i] : i \in DOMAIN q }

\* getattr(self, key, None)
getattr(o, key) ==
    IF key = Str("comment_id") /\ "comment_id" \in DOMAIN o THEN o.comment_id
    ELSE IF key = Str("downtime_id") /\ "downtime_id" \in DOMAIN o THEN o.downtime_id
    ELSE Get(o.dict, key, None)

\* for_json over every attribute copied from the stanza
NagiosObject_for_json_all(o) ==
    [ key \in Range(o.essential_keys) \cup DOMAIN o.dict |-> getattr(o, key) ]

NagiosObject_for_json(o) == [ key \in Range(o.essential_keys) |-> getattr(o, key) ]

Service_for_json(o) ==
    (Str("comments") :> [ id \in DOMAIN o.comments |-> NagiosObject_for_json(o.comments[id]) ])
    @@ (Str("downtimes") :> [ id \in DOMAIN o.downtimes |-> NagiosObject_for_json(o.downtimes[id]) ])
    @@ NagiosObject_for_json(o)

Host_for_json(self, o) ==
    (Str("services") :>
        [ idx \in DOMAIN o.services |->
            Service_for_json(self.services[o.services[idx].host][o.services[idx].service]) ])
    @@ (Str("comments") :> [ id \in DOMAIN o.comments |-> NagiosObject_for_json(o.comments[id]) ])
    @@ (Str("downtimes") :> [ id \in DOMAIN o.downtimes |-> NagiosObject_for_json(o.downtimes[id]) ])
    @@ NagiosObject_for_json(o)

Nagios_for_json(self) == [ host \in DOMAIN self.hosts |-> Host_for_json(self, self.hosts[host]) ]

(***************************************************************************)
(* The inputs: status files and config sources.                            *)
(***************************************************************************)
KV(k, v) == << k, "=" >> \o v
H1 == << "h1" >>
H2 == << "h2" >>
S1 == << "s1" >>
S2 == << "s2" >>

HostStatus1 ==
    << << "host", "status", " ", "{" >>,
       << " " >> \o KV("host_name", H1),
       << " " >> \o KV("current_state", << "0" >>),
       << " " >> \o KV("check_command", << "x" >>),
       << " " >> \o KV("alias", << "raw" >>) >>

ServiceStatus11 ==
    << << "service", "status", " ", "{" >>,
       KV("host_name", H1), KV("service_description", S1), KV("current_state", << "2" >>) >>

HostStatus2 ==
    << << "host", "status", " ", "{" >>, KV("host_name", H2), << "}" >> >>

ServiceStatus21 ==
    << << "service", "status", " ", "{" >>,
       KV("host_name", H2), KV("service_description", S1) >>

ServiceStatus12 ==
    << << "service", "status", " ", "{" >>,
       KV("host_name", H1), KV("service_description", S2), KV("notes", << "raw" >>),
       << " ", "}" >> >>

HostComment1 ==
    << << "host", "comment", " ", "{" >>,
       KV("host_name", H1), KV("comment_id", << "1" >>), KV("author", << "ops" >>) >>

ServiceComment1 ==
    << << "service", "comment", " ", "{" >>,
       KV("host_name", H1), KV("service_description", S1),
       KV("comment_id", << "0", "1" >>), KV("comment_data", << "ack" >>) >>

HostDowntime1 ==
    << << "host", "downtime", " ", "{" >>,
       KV("host_name", H1), KV("downtime_id", << "1" >>), KV("fixed", << "1" >>) >>

ServiceDowntime1 ==
    << << "service", "downtime", " ", "{" >>,
       KV("host_name", H1), KV("service_description", S1),
       KV("downtime_id", << "0", "1" >>), KV("author", << "ops" >>) >>

StanzaSet ==
    { HostStatus1, HostStatus2, ServiceStatus11, ServiceStatus12, ServiceStatus21,
      HostComment1, ServiceComment1, HostDowntime1, ServiceDowntime1 }

\* the pieces a status file is made of: a stanza, or a host followed by its service
FragmentSet == StanzaSet \cup { HostStatus1 \o ServiceStatus11 }

LineSet ==
    { << "host", "status", " ", "{" >>,
      << " ", "host_name", "=", "h1" >>,
      << "plugin_output", "=", "a", "=", "b" >>,
      << "plugin_output", "=", "a", " ", "{" >>,
      << "host", "comment", " ", "{" >>,
      << "comment_id", "=", "x" >>,
      << "}" >> }

RECURSIVE Concats(_, _)
Concats(parts, n) ==
    IF n = 0 THEN { << >> }
    ELSE LET shorter == Concats(parts, n - 1)
         IN  shorter \cup { a \o b : a \in shorter, b \in parts }

\* files made of up to MaxFragments fragments
StanzaFiles == Concats(FragmentSet, MaxFragments)
\* files made of up to MaxLines arbitrary lines
LineFiles == Concats({ << l >> : l \in LineSet }, MaxLines)

NoModel == [ enabled |-> FALSE, host |-> << >>, service |-> << >> ]

Model1 ==
    [ enabled |-> TRUE,
      host |-> (H1 :> << (Str("alias") :> << "web" >>) @@ (Str("notes") :> << >>)
                           @@ (Str("hostgroups") :> << "g" >>),
                         (Str("alias") :> << "second" >>) @@ (Str("notes") :> << "n2" >>) >>),
      service |-> (<< H1, S1 >> :> << (Str("notes") :> << "n" >>)
                                        @@ (Str("servicegroups") :> << "sg" >>)
                                        @@ (Str("hostgroups") :> << "hg" >>) >>) ]

ModelSet == { NoModel, Model1 }

QueryHosts == { H1, H2 }
QueryServices == { None, S1 }

(***************************************************************************)
(* The state machine.                                                      *)
(***************************************************************************)
Init ==
    /\ statusfile \in StanzaFiles \cup LineFiles
    /\ pc = "new"
    /\ nagios = << >>
    /\ err = ""
    /\ f = "unopened"
    /\ lookups = << >>
    /\ yielded = << >>
    /\ ret = [ op |-> "none" ]

\* what the caller holds of the object: the fields of Nagios
Fields(self) ==
    [ hosts |-> self.hosts, services |-> self.services, comments |-> self.comments,
      downtimes |-> self.downtimes, model |-> self.model ]

\* Nagios(statusfile, cfg_file)
Build ==
    /\ pc = "new"
    /\ \E g \in { next_stanza(statusfile) } :
         \E model \in ModelSet :
         \E p \in { ReadLoop(Open(NewNagios(model)), g) } :
         \E sched \in Schedules(p) :
         \E r \in { Finish(p, sched) } :
            /\ pc' = IF r.err = "" THEN "built" ELSE "failed"
            /\ nagios' = IF r.err = "" THEN << Fields(r) >> ELSE << >>
            /\ err' = r.err
            /\ f' = r.f
            /\ lookups' = r.log
            /\ yielded' = g.yielded
    /\ UNCHANGED << statusfile, ret >>

\* nagios.host_or_service(host, service)
CallHostOrService ==
    /\ pc = "built"
    /\ \E host \in QueryHosts, service \in QueryServices :
         ret' = [ op |-> "host_or_service", host |-> host, service |-> service,
                  val |-> host_or_service(nagios[1], host, service) ]
    /\ UNCHANGED << statusfile, pc, nagios, err, f, lookups, yielded >>

\* nagios.for_json()
CallForJson ==
    /\ pc = "built"
    /\ ret' = [ op |-> "for_json", val |-> Nagios_for_json(nagios[1]) ]
    /\ UNCHANGED << statusfile, pc, nagios, err, f, lookups, yielded >>

Next == Build \/ CallHostOrService \/ CallForJson

Spec == Init /\ [][Next]_vars

(***************************************************************************)
(* Vocabulary of the properties: the stanzas of the input, taken from the  *)
(* generator's output, and the places of the finished graph.               *)
(***************************************************************************)
TypeOf(obj) == obj[Str("type")]
HostOf(obj) == Get(obj, Str("host_name"), None)
ServiceOf(obj) == Get(obj, Str("service_description"), None)

IsHostStanza(obj) == TypeOf(obj) = << "host", "status" >>
IsServiceStanza(obj) == TypeOf(obj) = << "service", "status" >>
IsCommentStanza(obj) ==
    ~IsHostStanza(obj) /\ ~IsServiceStanza(obj) /\ endswith(TypeOf(obj), "comment")
IsDowntimeStanza(obj) ==
    /\ ~IsHostStanza(obj) /\ ~IsServiceStanza(obj) /\ ~IsCommentStanza(obj)
    /\ endswith(TypeOf(obj), "downtime")

Stanzas == 1..Len(yielded)
HostStanzas == { i \in Stanzas : IsHostStanza(yielded[i]) }
ServiceStanzas == { i \in Stanzas : IsServiceStanza(yielded[i]) }
CommentStanzas == { i \in Stanzas : IsCommentStanza(yielded[i]) }
DowntimeStanzas == { i \in Stanzas : IsDowntimeStanza(yielded[i]) }

InputHosts == { HostOf(yielded[i]) : i \in HostStanzas }
InputServices == { << HostOf(yielded[i]), ServiceOf(yielded[i]) >> : i \in ServiceStanzas }

\* the key of the id of a comment or downtime stanza
IdKey(i) == IF i \in CommentStanzas THEN Str("comment_id") ELSE Str("downtime_id")
HasNumericId(i) == IdKey(i) \in DOMAIN yielded[i] /\ int(yielded[i][IdKey(i)]).ok
IdOf(i) == int(yielded[i][IdKey(i)]).val

\* the entity a comment or downtime stanza names: a service when it carries a
\* service_description, else a host
TargetOf(i) ==
    IF ServiceOf(yielded[i]) = None
    THEN << "Host", HostOf(yielded[i]) >>
    ELSE << "Service", HostOf(yielded[i]), ServiceOf(yielded[i]) >>

TargetExists(i) ==
    /\ HostOf(yielded[i]) \in InputHosts
    /\ ServiceOf(yielded[i]) # None
         => << HostOf(yielded[i]), ServiceOf(yielded[i]) >> \in InputServices

Kinds == { "comment", "downtime" }
StanzasOf(kind) == IF kind = "comment" THEN CommentStanzas ELSE DowntimeStanzas

\* no later stanza of the same kind carries the same id
LastOfItsId(i, kind) ==
    \A j \in StanzasOf(kind) : (j > i /\ HasNumericId(j)) => IdOf(j) # IdOf(i)

\* the hosts and services of the graph the caller received
Places ==
    { << "Host", h >> : h \in DOMAIN nagios[1].hosts }
    \cup UNION { { << "Service", h, sv >> : sv \in DOMAIN nagios[1].services[h] } :
                 h \in DOMAIN nagios[1].services }

EntityAt(place) ==
    IF place[1] = "Host" THEN nagios[1].hosts[place[2]]
    ELSE nagios[1].services[place[2]][place[3]]

\* the comments (downtimes) mapping of a place
MappingAt(place, kind) ==
    IF kind = "comment" THEN EntityAt(place).comments ELSE EntityAt(place).downtimes

\* the places whose mapping holds an entity with this id
HoldersOfId(id, kind) == { pl \in Places : id \in DOMAIN MappingAt(pl, kind) }

\* the places whose mapping holds the entity built from stanza i
HoldersOf(i, kind) ==
    { pl \in HoldersOfId(IdOf(i), kind) : MappingAt(pl, kind)[IdOf(i)].dict = yielded[i] }

GeneratorOk == err # "TypeError"

(***************************************************************************)
(* C1.  A servicestatus stanza whose host_name matches no hoststatus       *)
(* stanza does not stop the build: the build completes and the service is  *)
(* attached to no host.  Stated for inputs with no other fault (only       *)
(* hoststatus and servicestatus stanzas).                                  *)
(***************************************************************************)
DanglingServices == { i \in ServiceStanzas : HostOf(yielded[i]) \notin InputHosts }

\* C1: with a servicestatus stanza of an unknown host in the input, the build
\* returns and no host holds that service
C1_DanglingServiceDropped ==
    ( /\ pc # "new"
      /\ GeneratorOk
      /\ Stanzas = HostStanzas \cup ServiceStanzas
      /\ DanglingServices # {} )
    => /\ pc = "built"
       /\ \A i \in DanglingServices : \A h \in DOMAIN nagios[1].hosts :
            \A k \in DOMAIN nagios[1].hosts[h].services :
               nagios[1].hosts[h].services[k]
                  # ServiceRef(HostOf(yielded[i]), ServiceOf(yielded[i]))

(***************************************************************************)
(* C2.  A comment or downtime stanza whose host or service is not in the   *)
(* input does not stop the build: the build completes, the entity is       *)
(* attached nowhere and the others are attached as usual.  Stated for      *)
(* inputs with no other fault (numeric ids, no dangling service).          *)
(***************************************************************************)
Dangling(kind) == { i \in StanzasOf(kind) : HasNumericId(i) /\ ~TargetExists(i) }

\* C2: with a comment or downtime stanza of an unknown host or service in the
\* input, the build returns, that entity is held nowhere and every other one is
\* held by its target
C2_DanglingCommentDropped ==
    ( /\ pc # "new"
      /\ GeneratorOk
      /\ DanglingServices = {}
      /\ \A i \in CommentStanzas \cup DowntimeStanzas : HasNumericId(i)
      /\ Dangling("comment") \cup Dangling("downtime") # {} )
    => /\ pc = "built"
       /\ \A kind \in Kinds : \A i \in StanzasOf(kind) :
            IF TargetExists(i) /\ LastOfItsId(i, kind)
            THEN HoldersOf(i, kind) = { TargetOf(i) }
            ELSE HoldersOf(i, kind) = {}

(***************************************************************************)
(* C3.  After a build, every comment or downtime stanza whose target is in *)
(* the input is in the mapping of that target and of no other entity: of   *)
(* host h when it has no service_description, of service (h,s) when it has *)
(* one, whatever the order of the stanzas.                                 *)
(*   C3_EveryStanzaAttached is the claim as written (every such stanza).   *)
(*   C3_LastStanzaAttached is the claim for the stanzas that are the last  *)
(*   of their kind with their id.                                          *)
(***************************************************************************)
\* C3 as written: in a built snapshot every comment or downtime stanza whose
\* target is in the input is held by its target and by nothing else
C3_EveryStanzaAttached ==
    pc = "built" =>
        \A kind \in Kinds : \A i \in StanzasOf(kind) :
            (HostOf(yielded[i]) # None /\ TargetExists(i))
                => HoldersOf(i, kind) = { TargetOf(i) }

\* C3 amended: in a built snapshot every comment or downtime stanza that is the
\* last of its kind with its id, and whose target is in the input, is held by
\* its target (the host without service_description, else the service and not
\* the host) and by nothing else
C3_LastStanzaAttached ==
    pc = "built" =>
        \A kind \in Kinds : \A i \in StanzasOf(kind) :
            (HostOf(yielded[i]) # None /\ TargetExists(i) /\ LastOfItsId(i, kind))
                => /\ HoldersOf(i, kind) = { TargetOf(i) }
                   /\ ServiceOf(yielded[i]) = None => TargetOf(i)[1] = "Host"
                   /\ ServiceOf(yielded[i]) # None
                        => << "Host", HostOf(yielded[i]) >> \notin HoldersOf(i, kind)

\* a service comment that precedes, in the file, both stanzas of its target
C3_Witness ==
    /\ pc = "built"
    /\ \E i \in CommentStanzas : \E j \in HostStanzas : \E k \in ServiceStanzas :
         /\ i < j /\ i < k
         /\ ServiceOf(yielded[i]) # None
         /\ HostOf(yielded[j]) = HostOf(yielded[i])
         /\ HostOf(yielded[k]) = HostOf(yielded[i])
         /\ ServiceOf(yielded[k]) = ServiceOf(yielded[i])
         /\ HoldersOf(i, "comment") = { TargetOf(i) }

(***************************************************************************)
(* C4.  A key=value line before any line ending in '{' makes the build     *)
(* fail: the constructor raises and the caller receives no object,         *)
(* whatever follows the line.                                              *)
(***************************************************************************)
IsHeaderLine(l) == endswith(strip(l), "{")
IsKeyValueLine(l) == ~IsHeaderLine(l) /\ contains(l, "=")

StrayLines ==
    { i \in 1..Len(statusfile) :
        /\ IsKeyValueLine(statusfile[i])
        /\ \A j \in 1..i : ~IsHeaderLine(statusfile[j]) }

\* C4: after a build of a file with a key=value line before any header, the
\* constructor has raised and the caller holds no object
C4_StrayLineFailsBuild ==
    (pc # "new" /\ StrayLines # {}) => (pc = "failed" /\ nagios = << >> /\ err # "")

\* a stray line followed by a stanza
C4_Witness ==
    /\ pc = "failed"
    /\ \E i \in StrayLines : \E j \in 1..Len(statusfile) :
         j > i /\ IsHeaderLine(statusfile[j])

(***************************************************************************)
(* C5.  host_or_service never raises; it returns the Host when service is  *)
(* None and the host is a hoststatus stanza of the input, the Service when *)
(* both are given and the service is a servicestatus stanza under that     *)
(* host, and None otherwise.  During the build, when the parsed service    *)
(* table has a service whose host is absent, it returns None as well.      *)
(***************************************************************************)
Parsed == parse_loop(Open(NewNagios(NoModel)), yielded, 1)

\* C5: a call of host_or_service returns a Host, a Service or None, each
\* exactly in its case, and never raises
C5_HostOrServiceTotal ==
    /\ ret.op = "host_or_service" =>
          /\ ret.val.kind \in { "None", "Host", "Service" }
          /\ ret.val.kind = "Host"
                <=> (ret.service = None /\ ret.host \in InputHosts)
          /\ ret.val.kind = "Service"
                <=> /\ ret.service # None
                    /\ ret.host \in InputHosts
                    /\ << ret.host, ret.service >> \in InputServices
          /\ ret.val.kind # "None" => ret.val.host = ret.host
          /\ ret.val.kind = "Service" => ret.val.service = ret.service
    /\ (pc = "failed" /\ err = "AttributeError") =>
          \A h \in DOMAIN Parsed.services : \A sv \in DOMAIN Parsed.services[h] :
             h \notin DOMAIN Parsed.hosts => host_or_service(Parsed, h, sv).kind = "None"

\* a missing service under a host of the input
C5_Witness ==
    /\ ret.op = "host_or_service"
    /\ ret.host \in InputHosts
    /\ ret.service # None
    /\ << ret.host, ret.service >> \notin InputServices
    /\ ret.val.kind = "None"

(***************************************************************************)
(* C6.  In a built snapshot, for each id of a comment (downtime) stanza,   *)
(* exactly one place holds an entity with that id: the target of the last  *)
(* stanza with that id, and the entity there has the fields of that last   *)
(* stanza only.                                                            *)
(***************************************************************************)
\* C6: in a built snapshot an id is held at one place only, the target of the
\* last stanza with that id, with that stanza's fields
C6_LaterStanzaWins ==
    pc = "built" =>
        \A kind \in Kinds : \A i \in StanzasOf(kind) :
            LastOfItsId(i, kind) =>
                /\ HoldersOfId(IdOf(i), kind) = { TargetOf(i) }
                /\ MappingAt(TargetOf(i), kind)[IdOf(i)].dict = yielded[i]
                /\ MappingAt(TargetOf(i), kind)[IdOf(i)].host = HostOf(yielded[i])
                /\ MappingAt(TargetOf(i), kind)[IdOf(i)].service = ServiceOf(yielded[i])

\* two comment stanzas with one id, different targets and different fields
C6_Witness ==
    /\ pc = "built"
    /\ \E i, j \in CommentStanzas :
         /\ i < j
         /\ IdOf(i) = IdOf(j)
         /\ TargetOf(i) # TargetOf(j)
         /\ DOMAIN yielded[i] # DOMAIN yielded[j]
         /\ LastOfItsId(j, "comment")

(***************************************************************************)
(* C7.  The reduced view of a host holds no key outside the allow-list of  *)
(* hosts: the operational essential fields, alias/notes/hostgroups when    *)
(* the config lookup gave a non-empty value, and services, comments and    *)
(* downtimes; the same for the nested views of services, comments and      *)
(* downtimes.                                                              *)
(***************************************************************************)
\* the items the first record of a config lookup gives a non-empty value for
Supplied(records, items) ==
    IF Len(records) = 0 THEN {}
    ELSE { it \in items : it \in DOMAIN records[1] /\ Len(records[1][it]) > 0 }

HostAllowed(h) ==
    Range(HostOrServiceEssential)
    \cup { Str("services"), Str("comments"), Str("downtimes") }
    \cup Supplied(Get(nagios[1].model.host, h, << >>),
                  { Str("alias"), Str("notes"), Str("hostgroups") })

ServiceAllowed(h, sv) ==
    Range(HostOrServiceEssential)
    \cup { Str("comments"), Str("downtimes") }
    \cup Supplied(Get(nagios[1].model.service, << h, sv >>, << >>),
                  { Str("alias"), Str("notes"), Str("servicegroups") })

CommentsViewOk(view) ==
    /\ \A id \in DOMAIN view[Str("comments")] :
         DOMAIN view[Str("comments")][id] \subseteq Range(CommentEssential)
    /\ \A id \in DOMAIN view[Str("downtimes")] :
         DOMAIN view[Str("downtimes")][id] \subseteq Range(DowntimeEssential)

\* C7: every key of a reduced view of a host, and of the views nested in it,
\* is in the allow-list of its kind
C7_ViewWithinAllowList ==
    ret.op = "for_json" =>
        \A h \in DOMAIN ret.val :
            /\ DOMAIN ret.val[h] \subseteq HostAllowed(h)
            /\ CommentsViewOk(ret.val[h])
            /\ \A sv \in DOMAIN ret.val[h][Str("services")] :
                 /\ DOMAIN ret.val[h][Str("services")][sv] \subseteq ServiceAllowed(h, sv)
                 /\ CommentsViewOk(ret.val[h][Str("services")][sv])

\* a view of a host whose stanza had keys outside the allow-list, with a service
\* and a comment under it
C7_Witness ==
    /\ ret.op = "for_json"
    /\ \E h \in DOMAIN ret.val :
         /\ ~(DOMAIN nagios[1].hosts[h].dict \subseteq HostAllowed(h))
         /\ DOMAIN ret.val[h][Str("services")] # {}
         /\ DOMAIN ret.val[h][Str("comments")] # {}

(***************************************************************************)
(* C8.  In one build the config lookup is made at most once for each host  *)
(* name and at most once for each (host, service description) pair.        *)
(***************************************************************************)
\* C8: no config lookup is made twice in one build
C8_LookupAtMostOnce ==
    \A i, j \in 1..Len(lookups) : i # j => lookups[i] # lookups[j]

\* lookups made for an input with a repeated servicestatus stanza
C8_Witness ==
    /\ Len(lookups) > 1
    /\ \E i, j \in ServiceStanzas :
         /\ i < j
         /\ HostOf(yielded[i]) = HostOf(yielded[j])
         /\ ServiceOf(yielded[i]) = ServiceOf(yielded[j])
    /\ \E i, j \in HostStanzas : i < j /\ HostOf(yielded[i]) = HostOf(yielded[j])

(***************************************************************************)
(* C9.  The file handle is closed on every path out of the build, whether  *)
(* it returns or raises.                                                   *)
(***************************************************************************)
\* C9: once the build has returned or raised, the file handle is closed
C9_FileAlwaysClosed == pc # "new" => f = "closed"

(***************************************************************************)
(* C10.  For a file that starts with a header line, the generator yields   *)
(* one stanza per header line, in file order, and every line with a '='    *)
(* is added, split at its first '=', to the stanza of the most recent      *)
(* header before it and to no other; other lines change nothing.  A line   *)
(* with a '=' is a field line, also when its value ends in '{'; a header   *)
(* line is a line "<type> {".                                              *)
(***************************************************************************)
FieldLines == { i \in 1..Len(statusfile) : contains(statusfile[i], "=") }
HeaderLines == { i \in 1..Len(statusfile) : IsHeaderLine(statusfile[i]) } \ FieldLines

\* the k-th header line
HeaderAt(k) == CHOOSE i \in HeaderLines : Cardinality({ j \in HeaderLines : j <= i }) = k
\* the number of the stanza a field line belongs to: the headers before it
StanzaOfLine(i) == Cardinality({ j \in HeaderLines : j < i })

FirstEq(l) == CHOOSE i \in 1..Len(l) : l[i] = "=" /\ \A j \in 1..(i - 1) : l[j] # "="
KeyOfLine(i) == SubSeq(strip(statusfile[i]), 1, FirstEq(strip(statusfile[i])) - 1)
ValOfLine(i) ==
    SubSeq(strip(statusfile[i]), FirstEq(strip(statusfile[i])) + 1, Len(strip(statusfile[i])))
FirstWord(l) ==
    IF contains(l, " ")
    THEN SubSeq(l, 1, (CHOOSE i \in 1..Len(l) : l[i] = " " /\ \A j \in 1..(i - 1) : l[j] # " ") - 1)
    ELSE l

\* the field lines of stanza k, and the last of them for a key
FieldLinesOf(k) == { i \in FieldLines : StanzaOfLine(i) = k }
LastLineFor(k, key) ==
    CHOOSE i \in FieldLinesOf(k) :
        KeyOfLine(i) = key /\ \A j \in FieldLinesOf(k) : KeyOfLine(j) = key => j <= i

\* C10: for a file that starts with a header line the generator yields one
\* stanza per header line, each with the type of its header and exactly the
\* fields of the lines with a '=' that follow it
C10_ReaderYields ==
    (pc # "new" /\ 1 \in HeaderLines) =>
        /\ Len(yielded) = Cardinality(HeaderLines)
        /\ \A k \in 1..Len(yielded) :
             /\ DOMAIN yielded[k] = { Str("type") } \cup { KeyOfLine(i) : i \in FieldLinesOf(k) }
             /\ \A key \in DOMAIN yielded[k] :
                  IF \E i \in FieldLinesOf(k) : KeyOfLine(i) = key
                  THEN yielded[k][key] = ValOfLine(LastLineFor(k, key))
                  ELSE yielded[k][key] = FirstWord(strip(statusfile[HeaderAt(k)]))

====
